---- MODULE Spec2Model ----
(***************************************************************************)
(* Conversation controller of src/app/components/AIChatbotApp.tsx: the     *)
(* React state of the component, its event handlers, and the asynchronous  *)
(* Gateway calls they start.  A handler that awaits a Gateway call is      *)
(* split at the await: the part before it is the user-event action, the    *)
(* part after it is a reply action taken when the Gateway answers.         *)
(***************************************************************************)
EXTENDS Integers, Sequences, FiniteSets, Bags, TLC

VARIABLES
    messages,             \* useState<Message[]>([])              line 133
    input,                \* useState('')                         line 134
    choices,              \* useState<Choice[]>([])               line 135
    selectedChoices,      \* useState<string[]>([])               line 136
    stage,                \* useState('initial')                  line 137
    isLoading,            \* useState(false)                      line 138
    showChoices,          \* useState(false)                      line 139
    currentQuestion,      \* useState<string>('')                 line 140
    isTypingComplete,     \* useState(true)                       line 141
    promptError,          \* useState<string | null>(null)        line 142
    isGeneratingConcepts, \* useState(false)                      line 143
    showCombinedPrompt,   \* useState(false)                      line 144
    questionCount,        \* useState(0)                          line 145
    appConcepts,          \* useState<AppConcept[]>([])           line 146
    progress,             \* useState(0)                          line 148
    calls,                \* bag of Gateway requests in flight, each with its handler's closure
    fx,                   \* what the last step did: handler, error kind, notifications, requests
    disturbances,         \* failed Gateway calls plus requests started while another
                          \* was in flight, so far (at most limit.disturbances)
    resets,               \* number of resets so far (at most limit.resets)
    rounds,               \* answer rounds of the current interview so far: submits that
                          \* were answered by a question, or that completed the interview
    limit,                \* the bounds of the run: never changes
    \* src/app/api/openai/route.ts
    keyConfigured,        \* process.env.NEXT_PUBLIC_OPENAI_API_KEY is set
    request,              \* the HTTP request the POST handler is serving
    upstream,             \* the openai.chat.completions.create call of the handler
    response,             \* the NextResponse the handler returned
    \* src/unnamed/part_000, the debounce variant of the component
    debInput,             \* useState('')                         line 36
    debCurrentQuestion,   \* useState("What kind of app ...")     line 37
    debIsLoading,         \* useState(false)                      line 38
    typingTimeoutRef,     \* useRef(null): the pending timer and its closure, line 39
    debCalls,             \* bag of callOpenAI requests in flight
    \* src/unnamed/part_001, the percent-ready variant of the component
    pctMessages,          \* useState<Message[]>([])              line 77
    pctInput,             \* useState('')                         line 78
    pctChoices,           \* useState<Choice[]>([])               line 79
    pctSelectedChoices,   \* useState<string[]>([])               line 80
    readyPercentage,      \* useState(0)                          line 81
    pctStage,             \* useState('initial')                  line 82
    pctIsLoading,         \* useState(false)                      line 83
    pctShowChoices,       \* useState(false)                      line 84
    pctCalls,             \* bag of Gateway requests in flight
    buildTimer            \* the setTimeout of line 211 is pending

state == <<messages, input, choices, selectedChoices, stage, isLoading, showChoices,
           currentQuestion, isTypingComplete, promptError, isGeneratingConcepts,
           showCombinedPrompt, questionCount, appConcepts, progress>>

vars == <<messages, input, choices, selectedChoices, stage, isLoading, showChoices,
          currentQuestion, isTypingComplete, promptError, isGeneratingConcepts,
          showCombinedPrompt, questionCount, appConcepts, progress, calls, fx,
          disturbances, resets, rounds, limit,
          keyConfigured, request, upstream, response,
          debInput, debCurrentQuestion, debIsLoading, typingTimeoutRef, debCalls,
          pctMessages, pctInput, pctChoices, pctSelectedChoices, readyPercentage,
          pctStage, pctIsLoading, pctShowChoices, pctCalls, buildTimer>>

(* The variables of the main controller, and those of the proxy route. *)
appVars == <<messages, input, choices, selectedChoices, stage, isLoading, showChoices,
             currentQuestion, isTypingComplete, promptError, isGeneratingConcepts,
             showCombinedPrompt, questionCount, appConcepts, progress, calls, fx,
             disturbances, resets, rounds, limit>>

routeVars == <<keyConfigured, request, upstream, response>>

(* The variables of the other programs of the repository, which no step of *)
(* the main controller changes, and for each of them the variables that no *)
(* step of that program changes.                                           *)
debounceVars == <<debInput, debCurrentQuestion, debIsLoading, typingTimeoutRef, debCalls>>

percentVars == <<pctMessages, pctInput, pctChoices, pctSelectedChoices, readyPercentage,
                 pctStage, pctIsLoading, pctShowChoices, pctCalls, buildTimer>>

otherVars == <<routeVars, debounceVars, percentVars>>

notRouteVars == <<appVars, debounceVars, percentVars>>

notDebounceVars == <<appVars, routeVars, percentVars>>

notPercentVars == <<appVars, routeVars, debounceVars>>

----------------------------------------------------------------------------
(* Bounds of the model *)

MaxDisturbances == 1
MaxResets == 1
MaxMoreBlocks == 1
WideDisturbances == 2
LateDisturbances == 6

(* The labels the model's user toggles. *)
ToggleLabels == {1}

(* Program constants *)

MAX_QUESTIONS == 5
OPTIONS_LENGTH == 5
PROGRESS_STEP == 20
PROGRESS_CAP == 80
PROGRESS_FIRST == 20
PROGRESS_GENERATING == 90
PROGRESS_DONE == 100

----------------------------------------------------------------------------
(* Strings are sequences of one-character strings, so that trim() and      *)
(* toUpperCase() are computed rather than assumed.                         *)

EmptyString == <<>>

IsSpace(ch) == ch \in {" ", "\n", "\t"}

RECURSIVE TrimStart(_)
TrimStart(s) ==
    IF s = <<>> THEN <<>>
    ELSE IF IsSpace(Head(s)) THEN TrimStart(Tail(s)) ELSE s

RECURSIVE TrimEnd(_)
TrimEnd(s) ==
    IF s = <<>> THEN <<>>
    ELSE IF IsSpace(s[Len(s)]) THEN TrimEnd(SubSeq(s, 1, Len(s) - 1)) ELSE s

Trim(s) == TrimEnd(TrimStart(s))

UpperChar(ch) ==
    CASE ch = "a" -> "A" [] ch = "b" -> "B" [] ch = "c" -> "C" [] ch = "d" -> "D"
      [] ch = "i" -> "I" [] ch = "l" -> "L" [] ch = "n" -> "N" [] ch = "o" -> "O"
      [] ch = "p" -> "P" [] ch = "r" -> "R" [] ch = "s" -> "S" [] ch = "t" -> "T"
      [] ch = "v" -> "V" [] ch = "k" -> "K"
      [] OTHER -> ch

ToUpperCase(s) == [i \in 1..Len(s) |-> UpperChar(s[i])]

STR_VALID == <<"V", "A", "L", "I", "D">>
STR_ABSTRACT == <<"A", "B", "S", "T", "R", "A", "C", "T">>
STR_INVALID == <<"I", "N", "V", "A", "L", "I", "D">>

(* Values the user can type into the input field. *)
Inputs == { <<>>, <<" ">>, <<"a", "p", "p">> }

----------------------------------------------------------------------------
(* Messages.  A content is a tagged record: the prompt text, the summary   *)
(* "You: a, b", a question, an error text, or one of the fixed request     *)
(* texts.  typed is the local state of the message's TypingEffect.         *)

Content(tag, text, sel) == [tag |-> tag, text |-> text, sel |-> sel]

Message(content, isUser) == [content |-> content, isUser |-> isUser, typed |-> isUser]

AddMessage(prev, content, isUser) == Append(prev, Message(content, isUser))

ERR_SEND == Content("errorSend", EmptyString, <<>>)
ERR_NEXT == Content("errorNext", EmptyString, <<>>)
ERR_MORE == Content("errorMore", EmptyString, <<>>)

(* messages.map(msg => ({role: msg.isUser ? "user" : "assistant", content})) *)
AsRequestMessages(msgs) ==
    [i \in 1..Len(msgs) |->
        [role |-> IF msgs[i].isUser THEN "user" ELSE "assistant",
         content |-> msgs[i].content]]

Call(op, capturedInput, payload, stage0) ==
    [op |-> op, input |-> capturedInput, payload |-> payload, stage0 |-> stage0]

InFlight == BagCardinality(calls)

NoFx == [op |-> "none", err |-> "none", caught |-> FALSE, notes |-> 0, reqs |-> 0,
         stage0 |-> "none", optLen |-> -1]

Fx(op, err, caught, notes, reqs, stage0, optLen) ==
    [op |-> op, err |-> err, caught |-> caught, notes |-> notes, reqs |-> reqs,
     stage0 |-> stage0, optLen |-> optLen]


----------------------------------------------------------------------------
(* Gateway replies.  A call either fails in transport or returns a content *)
(* (possibly null).                                                        *)

QUESTION_A == <<"Q", "A">>
OPTIONS_A == <<1, 2, 3, 4, 5>>
OPTIONS_B == <<1, 6, 7, 8, 9>>
OPTIONS_SHORT == <<1, 2, 3, 4>>

(* Replies to the validation request of handleSendMessage. *)
ValidationReply(kind, hasContent, content) ==
    [kind |-> kind, hasContent |-> hasContent, content |-> content]

ValidationReplies ==
    { ValidationReply("fail", FALSE, EmptyString),
      ValidationReply("ok", FALSE, EmptyString),
      ValidationReply("ok", TRUE, <<" ", "v", "a", "l", "i", "d", "\n">>),
      ValidationReply("ok", TRUE, STR_ABSTRACT),
      ValidationReply("ok", TRUE, STR_INVALID),
      ValidationReply("ok", TRUE, <<"o", "k">>) }

(* validationResponse.choices[0].message.content?.trim().toUpperCase() *)
ValidationResult(r) ==
    IF r.hasContent THEN ToUpperCase(Trim(r.content)) ELSE <<"undefined">>

(* Replies to a handleApiCall request: the content is text that may or may *)
(* not be JSON, may be wrapped in code fences, and as an object may or may *)
(* not have a non-empty question and an options array.                     *)
ApiReply(kind, hasContent, fence, json, question, hasOptions, options) ==
    [kind |-> kind, hasContent |-> hasContent, fence |-> fence, json |-> json,
     question |-> question, hasOptions |-> hasOptions, options |-> options]

R_FAIL == ApiReply("fail", FALSE, FALSE, "invalid", EmptyString, FALSE, <<>>)
R_NULL == ApiReply("ok", FALSE, FALSE, "invalid", EmptyString, FALSE, <<>>)
R_TEXT == ApiReply("ok", TRUE, FALSE, "invalid", EmptyString, FALSE, <<>>)
R_NO_QUESTION == ApiReply("ok", TRUE, FALSE, "object", EmptyString, TRUE, OPTIONS_B)
R_SHORT == ApiReply("ok", TRUE, FALSE, "object", QUESTION_A, TRUE, OPTIONS_SHORT)
R_A == ApiReply("ok", TRUE, FALSE, "object", QUESTION_A, TRUE, OPTIONS_A)
R_FENCED == ApiReply("ok", TRUE, TRUE, "object", QUESTION_A, TRUE, OPTIONS_A)

ApiReplies == { R_FAIL, R_NULL, R_TEXT, R_NO_QUESTION, R_SHORT, R_A, R_FENCED }

(* JSON.parse(content): throws on text that is not JSON; text wrapped in   *)
(* code fences is not JSON.                                                *)
JsonParses(r) == r.json = "object" /\ ~r.fence

(* Mutant: the options array is not checked for its length. *)
ApiCallReturns_NoLengthCheck(r) ==
    /\ r.kind = "ok"
    /\ r.hasContent
    /\ JsonParses(r)
    /\ ~(r.question = EmptyString \/ ~r.hasOptions)

(* handleApiCall: TRUE when it returns parsedResponse, FALSE when it throws. *)
ApiCallReturns(r) ==
    /\ r.kind = "ok"
    /\ r.hasContent
    /\ JsonParses(r)
    /\ ~(r.question = EmptyString \/ ~r.hasOptions \/ Len(r.options) # OPTIONS_LENGTH)

(* aiResponse.options.map(option => ({label: option, isSelected: false})) *)
AsChoices(options) ==
    [i \in 1..Len(options) |-> [label |-> options[i], isSelected |-> FALSE]]

(* The error kind of a reply under the Gateway contract of askQuestion. *)
ApiErrorKind(r) ==
    IF r.kind = "fail" THEN "TransportFailure"
    ELSE IF r.hasContent /\ r.json = "object" /\ r.question # EmptyString
            /\ r.hasOptions /\ Len(r.options) = OPTIONS_LENGTH
         THEN "none"
         ELSE "MalformedResponse"

OptionsLength(r) == IF r.kind = "ok" /\ r.hasContent /\ r.json = "object" /\ r.hasOptions
                    THEN Len(r.options) ELSE -1

----------------------------------------------------------------------------
(* The proxy route src/app/api/openai/route.ts: POST forwards model,       *)
(* messages and max_tokens of the request body to the upstream provider.   *)

NoRequest == [kind |-> "none"]
NoUpstream == [kind |-> "none"]
NoResponse == [kind |-> "none"]

(* A request: its body is JSON text or not; as JSON it has the fields      *)
(* model, messages and (possibly undefined) max_tokens.                    *)
HttpRequest(json, model, msgs, max_tokens) ==
    [kind |-> "request", json |-> json, model |-> model, messages |-> msgs,
     max_tokens |-> max_tokens]

HttpRequests ==
    { HttpRequest(FALSE, "none", <<>>, "undefined") } \cup
    { HttpRequest(TRUE, m, ms, t) :
        m \in {"gpt-4o", "gpt-3.5-turbo"},
        ms \in { <<>>, <<[role |-> "user", content |-> "hi"]>> },
        t \in {"undefined", "30"} }

(* What the upstream call does: it resolves with a completion, or throws   *)
(* an error that carries the upstream HTTP status and a message.           *)
UpstreamStatuses == {400, 401, 429, 500, 503}
UpstreamMessages == {"", "Rate limit reached"}

UpstreamReplies ==
    { [kind |-> "ok", choices |-> cs] : cs \in { <<"choice0">>, <<"choice0", "choice1">> } }
    \cup
    { [kind |-> "fail", status |-> st, message |-> m] :
        st \in UpstreamStatuses, m \in UpstreamMessages }

(* NextResponse.json(body, {status}); the status defaults to 200. *)
NextResponseJson(status, body) == [kind |-> "response", status |-> status, body |-> body]

ErrorBody(message) == [error |-> message]

(* error.message || 'An error occurred' *)
MessageOr(message) == IF message = "" THEN "An error occurred" ELSE message

RouteIdle ==
    /\ keyConfigured = TRUE
    /\ request = NoRequest
    /\ upstream = NoUpstream
    /\ response = NoResponse

(* POST up to the await of the upstream call. *)
POST(req) ==
    /\ upstream.kind # "create"
    /\ request' = req
    /\ IF ~keyConfigured
       THEN /\ response' = NextResponseJson(500, ErrorBody("OpenAI API key not configured"))
            /\ upstream' = NoUpstream
       ELSE IF ~req.json
       THEN \* request.json() throws: the catch block answers
            /\ response' = NextResponseJson(500, ErrorBody("Unexpected token"))
            /\ upstream' = NoUpstream
       ELSE /\ response' = NoResponse
            /\ upstream' = [kind |-> "create", model |-> req.model,
                            messages |-> req.messages, max_tokens |-> req.max_tokens]
    /\ UNCHANGED <<keyConfigured, notRouteVars>>

(* POST after the upstream call resolved or threw. *)
UpstreamReturns(r) ==
    /\ upstream.kind = "create"
    /\ upstream' = [kind |-> IF r.kind = "ok" THEN "resolved" ELSE "rejected", reply |-> r]
    /\ response' = IF r.kind = "ok"
                   THEN NextResponseJson(200, r.choices[1])
                   ELSE NextResponseJson(500, ErrorBody(MessageOr(r.message)))
    /\ UNCHANGED <<keyConfigured, request, notRouteVars>>

----------------------------------------------------------------------------
(* The debounce variant src/unnamed/part_000: every keystroke arms a timer *)
(* that calls generateQuestion, and the submit control calls it directly.  *)
(* A useCallback closure sees the state of the render that created it.     *)

MaxDebounceCalls == 2

QUESTION_INITIAL == "What kind of app would you like to create?"
QUESTION_ELABORATE == "Can you elaborate on that?"
QUESTION_DIFFERENT == "Let's try a different approach. Any ideas?"

DebounceInputs == { <<>>, <<" ">>, <<"a">>, <<"a", ".">>, <<"a", ",">> }

(* Replies of callOpenAI: fetch fails or answers non-ok; the JSON body has *)
(* message.content or not.                                                 *)
DebounceReplies ==
    { [kind |-> "fail", content |-> ""],
      [kind |-> "ok", content |-> ""],
      [kind |-> "ok", content |-> "What is its main feature?"] }

NoTimer == [kind |-> "none"]

(* newInput.trim().slice(-1) *)
LastChar(s) == IF Trim(s) = <<>> THEN "" ELSE Trim(s)[Len(Trim(s))]

(* lastChar === '.' ? 0 : lastChar === ',' ? 500 : 1000 *)
Delay(lastChar) == IF lastChar = "." THEN 0 ELSE IF lastChar = "," THEN 500 ELSE 1000

(* if (newInput.trim() && (lastChar === '.' || lastChar === ',' || delay === 1000)) *)
TimerCallsGenerate(newInput) ==
    /\ Trim(newInput) # <<>>
    /\ \/ LastChar(newInput) = "."
       \/ LastChar(newInput) = ","
       \/ Delay(LastChar(newInput)) = 1000

DebounceIdle ==
    /\ debInput = EmptyString
    /\ debCurrentQuestion = QUESTION_INITIAL
    /\ debIsLoading = FALSE
    /\ typingTimeoutRef = NoTimer
    /\ debCalls = EmptyBag

(* generateQuestion(prompt) up to its await, as the closure that saw       *)
(* isLoading = loadingSeen and currentQuestion = questionSeen.             *)
GenerateQuestion(prompt, loadingSeen, questionSeen) ==
    IF Trim(prompt) = <<>> \/ loadingSeen
    THEN UNCHANGED <<debIsLoading, debCalls>>
    ELSE /\ BagCardinality(debCalls) < MaxDebounceCalls
         /\ debIsLoading' = TRUE
         /\ debCalls' = debCalls (+) SetToBag({[prompt |-> prompt, previous |-> questionSeen]})

(* generateQuestion after callOpenAI returned or threw. *)
GenerateQuestionReturns(c, r) ==
    /\ c \in BagToSet(debCalls)
    /\ debCalls' = debCalls (-) SetToBag({c})
    /\ debCurrentQuestion' =
          IF r.kind = "fail" THEN QUESTION_DIFFERENT
          ELSE IF r.content # "" THEN r.content ELSE QUESTION_ELABORATE
    /\ debIsLoading' = FALSE
    /\ UNCHANGED <<debInput, typingTimeoutRef, notDebounceVars>>

(* handleInputChange: the new timer replaces the pending one and keeps the *)
(* generateQuestion of the render in which the keystroke was handled.      *)
HandleInputChange(newInput) ==
    /\ newInput # debInput
    /\ debInput' = newInput
    /\ typingTimeoutRef' = [kind |-> "pending", newInput |-> newInput,
                            delay |-> Delay(LastChar(newInput)),
                            isLoading |-> debIsLoading,
                            currentQuestion |-> debCurrentQuestion]
    /\ UNCHANGED <<debCurrentQuestion, debIsLoading, debCalls, notDebounceVars>>

(* The timer of handleInputChange fires. *)
TypingTimeoutFires ==
    /\ typingTimeoutRef.kind = "pending"
    /\ typingTimeoutRef' = [typingTimeoutRef EXCEPT !.kind = "fired"]
    /\ IF TimerCallsGenerate(typingTimeoutRef.newInput)
       THEN GenerateQuestion(typingTimeoutRef.newInput, typingTimeoutRef.isLoading,
                             typingTimeoutRef.currentQuestion)
       ELSE UNCHANGED <<debIsLoading, debCalls>>
    /\ UNCHANGED <<debInput, debCurrentQuestion, notDebounceVars>>

(* handleInputSubmit of part_000 (the button and the Enter key): it is     *)
(* created by every render and calls that render's generateQuestion.       *)
DebounceInputSubmit ==
    /\ IF Trim(debInput) # <<>>
       THEN GenerateQuestion(debInput, debIsLoading, debCurrentQuestion)
       ELSE UNCHANGED <<debIsLoading, debCalls>>
    /\ UNCHANGED <<debInput, debCurrentQuestion, typingTimeoutRef, notDebounceVars>>

----------------------------------------------------------------------------
(* The percent-ready variant src/unnamed/part_001 before any event; its    *)
(* handlers are defined further down, with its specification.             *)

READY_FIRST == 20
READY_STEP == 20
READY_FULL == 100
READY_LAST_ROUND == 80

PercentIdle ==
    /\ pctMessages = <<>>
    /\ pctInput = EmptyString
    /\ pctChoices = <<>>
    /\ pctSelectedChoices = <<>>
    /\ readyPercentage = 0
    /\ pctStage = "initial"
    /\ pctIsLoading = FALSE
    /\ pctShowChoices = FALSE
    /\ pctCalls = EmptyBag
    /\ buildTimer = FALSE

----------------------------------------------------------------------------
Limits(d, r) == [disturbances |-> d, resets |-> r]

Init ==
    /\ messages = <<>>
    /\ input = EmptyString
    /\ choices = <<>>
    /\ selectedChoices = <<>>
    /\ stage = "initial"
    /\ isLoading = FALSE
    /\ showChoices = FALSE
    /\ currentQuestion = EmptyString
    /\ isTypingComplete = TRUE
    /\ promptError = "null"
    /\ isGeneratingConcepts = FALSE
    /\ showCombinedPrompt = FALSE
    /\ questionCount = 0
    /\ appConcepts = [defined |-> TRUE, list |-> <<>>]
    /\ progress = 0
    /\ calls = EmptyBag
    /\ fx = NoFx
    /\ disturbances = 0
    /\ resets = 0
    /\ rounds = 0
    /\ limit = Limits(MaxDisturbances, MaxResets)
    /\ RouteIdle
    /\ DebounceIdle
    /\ PercentIdle

----------------------------------------------------------------------------
(* What is rendered (the JSX of lines 540-674). *)

InitialScreen == stage = "initial"

ChatInterface == stage # "initial" /\ ~isGeneratingConcepts /\ ~showCombinedPrompt

InputVisible ==
    \/ stage = "initial"
    \/ stage # "initial" /\ ~isGeneratingConcepts /\ ~showCombinedPrompt

ChoicesVisible == ChatInterface /\ showChoices /\ isTypingComplete

----------------------------------------------------------------------------
(* Mutant: a handler sends its request twice. *)
StartCall_Twice(c) ==
    /\ InFlight = 0 \/ disturbances < limit.disturbances
    /\ calls' = (calls (+) SetToBag({c})) (+) SetToBag({c})
    /\ disturbances' = IF InFlight = 0 THEN disturbances ELSE disturbances + 1

(* A handler starts a Gateway request: the request joins the calls in      *)
(* flight.  The run's bound caps how often a request starts while another *)
(* is in flight.                                                           *)
StartCall(c) ==
    /\ InFlight = 0 \/ disturbances < limit.disturbances
    /\ calls' = calls (+) SetToBag({c})
    /\ disturbances' = IF InFlight = 0 THEN disturbances ELSE disturbances + 1

(* A Gateway call fails (transport or contract): bounded by the run's limit. *)
CountFault ==
    /\ disturbances < limit.disturbances
    /\ disturbances' = disturbances + 1

----------------------------------------------------------------------------
(* User events on the initial screen and the input field. *)

(* onChange={(e) => setInput(e.target.value)}.  The model types only on   *)
(* the initial screen: in the later stages handleInputSubmit calls        *)
(* handleNextStep, which never reads input.                               *)
SetInput(v) ==
    /\ stage = "initial"
    /\ v # input
    /\ input' = v
    /\ fx' = NoFx
    /\ UNCHANGED <<messages, choices, selectedChoices, stage, isLoading, showChoices,
                   currentQuestion, isTypingComplete, promptError, isGeneratingConcepts,
                   showCombinedPrompt, questionCount, appConcepts, progress, calls,
                   disturbances, resets, rounds, limit, otherVars>>

(* Mutant: the prompt is compared without trim(). *)
PromptIsEmpty_NoTrim(s) == s = EmptyString

(* if (input.trim() === '') *)
PromptIsEmpty(s) == Trim(s) = EmptyString

(* handleSendMessage up to its first await: the validation request. *)
HandleSendMessage ==
    IF PromptIsEmpty(input)
    THEN /\ promptError' = "abstract"
         /\ fx' = Fx("handleSendMessage", "EmptyInput", FALSE, 1, 0, stage, -1)
         /\ UNCHANGED <<messages, input, choices, selectedChoices, stage, isLoading,
                        showChoices, currentQuestion, isTypingComplete,
                        isGeneratingConcepts, showCombinedPrompt, questionCount,
                        appConcepts, progress, calls, disturbances, resets, rounds, limit, otherVars>>
    ELSE /\ promptError' = "null"
         /\ isLoading' = TRUE
         /\ StartCall(Call("validate", input,
                <<[role |-> "user", content |-> Content("prompt", input, <<>>)]>>,
                stage))
         /\ fx' = Fx("handleSendMessage", "none", FALSE, 0, 1, stage, -1)
         /\ UNCHANGED <<messages, input, choices, selectedChoices, stage, showChoices,
                        currentQuestion, isTypingComplete, isGeneratingConcepts,
                        showCombinedPrompt, questionCount, appConcepts, progress,
                        resets, rounds, limit, otherVars>>

(* Mutant: a prompt classified ABSTRACT is accepted as well. *)
IsValid_AcceptsAbstract(result) == result \in {STR_VALID, STR_ABSTRACT}

(* if (validationResult === 'VALID') *)
IsValid(result) == result = STR_VALID

(* handleSendMessage after the validation request returned or threw. *)
ValidationReturns(c, r) ==
    /\ c \in BagToSet(calls)
    /\ c.op = "validate"
    /\ IF r.kind = "fail"
       THEN \* catch: addMessage(error, false); finally: setIsLoading(false)
            /\ CountFault
            /\ messages' = AddMessage(messages, ERR_SEND, FALSE)
            /\ isTypingComplete' = FALSE
            /\ showChoices' = FALSE
            /\ isLoading' = FALSE
            /\ calls' = calls (-) SetToBag({c})
            /\ fx' = Fx("validationReply", "TransportFailure", TRUE, 1, 0, c.stage0, -1)
            /\ UNCHANGED <<input, stage, promptError>>
       ELSE IF IsValid(ValidationResult(r))
       THEN \* addMessage(input, true); setInput(''); setStage('in_progress');
            \* then the first-question request of handleApiCall
            /\ messages' = AddMessage(messages, Content("prompt", c.input, <<>>), TRUE)
            /\ input' = EmptyString
            /\ stage' = "in_progress"
            /\ calls' = (calls (-) SetToBag({c})) (+) SetToBag({Call("first", c.input,
                          <<[role |-> "user", content |-> Content("prompt", c.input, <<>>)]>>,
                          c.stage0)})
            /\ fx' = Fx("validationReply", "none", FALSE, 0, 1, c.stage0, -1)
            /\ UNCHANGED <<isTypingComplete, showChoices, isLoading, promptError, disturbances>>
       ELSE /\ promptError' = IF ValidationResult(r) = STR_ABSTRACT
                              THEN "abstract" ELSE "notUnderstood"
            /\ isLoading' = FALSE
            /\ calls' = calls (-) SetToBag({c})
            /\ fx' = Fx("validationReply", "PromptRejected", FALSE, 1, 0, c.stage0, -1)
            /\ UNCHANGED <<messages, input, stage, isTypingComplete, showChoices, disturbances>>
    /\ UNCHANGED <<choices, selectedChoices, currentQuestion, isGeneratingConcepts,
                   showCombinedPrompt, questionCount, appConcepts, progress, resets, rounds, limit, otherVars>>

(* handleSendMessage after the first-question call returned or threw. *)
FirstQuestionReturns(c, r) ==
    /\ c \in BagToSet(calls)
    /\ c.op = "first"
    /\ calls' = calls (-) SetToBag({c})
    /\ isLoading' = FALSE
    /\ isTypingComplete' = FALSE
    /\ showChoices' = FALSE
    /\ IF ApiCallReturns(r)
       THEN /\ messages' = AddMessage(messages, Content("question", r.question, <<>>), FALSE)
            /\ currentQuestion' = r.question
            /\ choices' = AsChoices(r.options)
            /\ questionCount' = 1
            /\ progress' = PROGRESS_FIRST
            /\ fx' = Fx("firstReply", ApiErrorKind(r), FALSE, 0, 0, c.stage0, OptionsLength(r))
            /\ UNCHANGED disturbances
       ELSE /\ CountFault
            /\ messages' = AddMessage(messages, ERR_SEND, FALSE)
            /\ fx' = Fx("firstReply", ApiErrorKind(r), TRUE, 1, 0, c.stage0, OptionsLength(r))
            /\ UNCHANGED <<currentQuestion, choices, questionCount, progress>>
    /\ UNCHANGED <<input, selectedChoices, stage, promptError, isGeneratingConcepts,
                   showCombinedPrompt, appConcepts, resets, rounds, limit, otherVars>>

----------------------------------------------------------------------------
(* Choices: toggle, submit of the selections, more options. *)

Labels(seq) == { seq[i] : i \in 1..Len(seq) }

RECURSIVE Without(_, _)
Without(seq, label) ==
    IF seq = <<>> THEN <<>>
    ELSE IF Head(seq) = label THEN Without(Tail(seq), label)
         ELSE <<Head(seq)>> \o Without(Tail(seq), label)

(* prev.includes(label) ? prev.filter(c => c !== label) : [...prev, label] *)
ToggleSelected(prev, label) ==
    IF label \in Labels(prev) THEN Without(prev, label) ELSE Append(prev, label)

(* Mutant: a toggle marks the choice selected instead of flipping it. *)
ToggleChoices_Selects(prev, label) ==
    [i \in 1..Len(prev) |->
        IF prev[i].label = label THEN [prev[i] EXCEPT !.isSelected = TRUE] ELSE prev[i]]

(* prev.map(choice => choice.label === label ? {...choice, isSelected: !choice.isSelected} : choice) *)
ToggleChoices(prev, label) ==
    [i \in 1..Len(prev) |->
        IF prev[i].label = label
        THEN [prev[i] EXCEPT !.isSelected = ~prev[i].isSelected]
        ELSE prev[i]]

HandleChoiceToggle(label) ==
    /\ ChoicesVisible
    /\ \E i \in 1..Len(choices) : choices[i].label = label
    /\ label \in ToggleLabels
    /\ selectedChoices' = ToggleSelected(selectedChoices, label)
    /\ choices' = ToggleChoices(choices, label)
    /\ fx' = Fx("handleChoiceToggle", "none", FALSE, 0, 0, stage, -1)
    /\ UNCHANGED <<messages, input, stage, isLoading, showChoices, currentQuestion,
                   isTypingComplete, promptError, isGeneratingConcepts,
                   showCombinedPrompt, questionCount, appConcepts, progress, calls,
                   disturbances, resets, rounds, limit, otherVars>>

(* Mutant: the early return on an empty selection is missing. *)
NothingSelected_NoReturn(sel) == FALSE

(* if (selectedChoices.length === 0) return; *)
NothingSelected(sel) == Len(sel) = 0

(* Mutant: the round test is off by one. *)
AsksAnotherQuestion_OffByOne(count) == count < MAX_QUESTIONS

(* if (questionCount < MAX_QUESTIONS - 1) *)
AsksAnotherQuestion(count) == count < MAX_QUESTIONS - 1

(* setProgress(prev => Math.min(prev + 20, 80)) *)
NextProgress(prev) == IF prev + PROGRESS_STEP < PROGRESS_CAP THEN prev + PROGRESS_STEP
                      ELSE PROGRESS_CAP

(* handleNextStep up to its await. *)
HandleNextStep ==
    IF NothingSelected(selectedChoices)
    THEN /\ fx' = Fx("handleNextStep", "none", FALSE, 0, 0, stage, -1)
         /\ UNCHANGED <<messages, input, choices, selectedChoices, stage, isLoading,
                        showChoices, currentQuestion, isTypingComplete, promptError,
                        isGeneratingConcepts, showCombinedPrompt, questionCount,
                        appConcepts, progress, calls, disturbances, resets, rounds, limit, otherVars>>
    ELSE /\ selectedChoices' = <<>>
         /\ showChoices' = FALSE
         /\ IF AsksAnotherQuestion(questionCount)
            THEN /\ messages' = AddMessage(messages,
                                    Content("you", EmptyString, selectedChoices), TRUE)
                 /\ isLoading' = TRUE
                 /\ progress' = NextProgress(progress)
                 /\ StartCall(Call("next", EmptyString,
                        AsRequestMessages(messages) \o
                          <<[role |-> "user",
                             content |-> Content("join", EmptyString, selectedChoices)]>>,
                        stage))
                 /\ fx' = Fx("handleNextStep", "none", FALSE, 0, 1, stage, -1)
                 /\ UNCHANGED <<stage, isGeneratingConcepts, rounds>>
            ELSE \* addMessage(...) is followed by setMessages([]) in the same handler
                 /\ stage' = "completed"
                 /\ isGeneratingConcepts' = TRUE
                 /\ messages' = <<>>
                 /\ progress' = PROGRESS_GENERATING
                 /\ StartCall(Call("concepts", EmptyString,
                        AsRequestMessages(messages) \o
                          <<[role |-> "user",
                             content |-> Content("generate", EmptyString, <<>>)]>>,
                        stage))
                 /\ fx' = Fx("handleNextStep", "none", FALSE, 0, 1, stage, -1)
                 /\ rounds' = rounds + 1
                 /\ UNCHANGED isLoading
         /\ UNCHANGED <<input, choices, currentQuestion, isTypingComplete, promptError,
                        showCombinedPrompt, questionCount, appConcepts, resets, limit, otherVars>>

(* handleInputSubmit *)
HandleInputSubmit ==
    IF stage = "initial" THEN HandleSendMessage ELSE HandleNextStep

(* <Button onClick={handleInputSubmit} disabled={isLoading}> *)
SubmitButton ==
    /\ InputVisible
    /\ ~isLoading
    /\ HandleInputSubmit

(* onKeyPress={(e) => e.key === 'Enter' && handleInputSubmit()} *)
EnterKey ==
    /\ InputVisible
    /\ HandleInputSubmit

(* Mutant: the counter is advanced by two. *)
NextCount_ByTwo(prev) == prev + 2

(* setQuestionCount(prev => prev + 1) *)
NextCount(prev) == prev + 1

(* handleNextStep after the next-question call returned or threw. *)
NextQuestionReturns(c, r) ==
    /\ c \in BagToSet(calls)
    /\ c.op = "next"
    /\ calls' = calls (-) SetToBag({c})
    /\ isLoading' = FALSE
    /\ isTypingComplete' = FALSE
    /\ showChoices' = FALSE
    /\ IF ApiCallReturns(r)
       THEN /\ messages' = AddMessage(messages, Content("question", r.question, <<>>), FALSE)
            /\ currentQuestion' = r.question
            /\ choices' = AsChoices(r.options)
            /\ questionCount' = NextCount(questionCount)
            /\ rounds' = rounds + 1
            /\ fx' = Fx("nextReply", ApiErrorKind(r), FALSE, 0, 0, c.stage0, OptionsLength(r))
            /\ UNCHANGED disturbances
       ELSE /\ CountFault
            /\ messages' = AddMessage(messages, ERR_NEXT, FALSE)
            /\ fx' = Fx("nextReply", ApiErrorKind(r), TRUE, 1, 0, c.stage0, OptionsLength(r))
            /\ UNCHANGED <<currentQuestion, choices, questionCount, rounds>>
    /\ UNCHANGED <<input, selectedChoices, stage, promptError, isGeneratingConcepts,
                   showCombinedPrompt, appConcepts, progress, resets, limit, otherVars>>

(* handleMoreChoices up to its await. *)
HandleMoreChoices ==
    /\ ChoicesVisible
    /\ ~isLoading
    /\ Len(choices) <= OPTIONS_LENGTH * MaxMoreBlocks
    /\ isLoading' = TRUE
    /\ StartCall(Call("more", EmptyString,
           <<[role |-> "user",
              content |-> Content("more", currentQuestion,
                                  [i \in 1..Len(choices) |-> choices[i].label])]>>,
           stage))
    /\ fx' = Fx("handleMoreChoices", "none", FALSE, 0, 1, stage, -1)
    /\ UNCHANGED <<messages, input, choices, selectedChoices, stage, showChoices,
                   currentQuestion, isTypingComplete, promptError, isGeneratingConcepts,
                   showCombinedPrompt, questionCount, appConcepts, progress, resets, rounds, limit, otherVars>>

(* The error kind of a reply under the Gateway contract of askMoreOptions. *)
MoreErrorKind(r) ==
    IF r.kind = "fail" THEN "TransportFailure"
    ELSE IF r.hasContent /\ r.json = "object" /\ r.hasOptions /\ Len(r.options) >= 1
         THEN "none"
         ELSE "MalformedResponse"

(* if (!aiResponse || !Array.isArray(aiResponse.options) || aiResponse.options.length === 0) *)
MoreResponseInvalid(r) == ~r.hasOptions \/ Len(r.options) = 0

(* Mutant: the new options replace the Choice list. *)
MoreChoices_Replaces(prev, options) == AsChoices(options)

(* setChoices(prev => [...prev, ...aiResponse.options.map(option => ({label: option, isSelected: false}))]) *)
MoreChoices(prev, options) == prev \o AsChoices(options)

(* handleMoreChoices after its call returned or threw. *)
MoreChoicesReturns(c, r) ==
    /\ c \in BagToSet(calls)
    /\ c.op = "more"
    /\ calls' = calls (-) SetToBag({c})
    /\ isLoading' = FALSE
    /\ IF ApiCallReturns(r) /\ ~MoreResponseInvalid(r)
       THEN /\ choices' = MoreChoices(choices, r.options)
            /\ fx' = Fx("moreReply", MoreErrorKind(r), FALSE, 0, 0, c.stage0, OptionsLength(r))
            /\ UNCHANGED <<messages, isTypingComplete, showChoices, disturbances>>
       ELSE /\ CountFault
            /\ messages' = AddMessage(messages, ERR_MORE, FALSE)
            /\ isTypingComplete' = FALSE
            /\ showChoices' = FALSE
            /\ fx' = Fx("moreReply", MoreErrorKind(r), TRUE, 1, 0, c.stage0, OptionsLength(r))
            /\ UNCHANGED choices
    /\ UNCHANGED <<input, selectedChoices, stage, currentQuestion, promptError,
                   isGeneratingConcepts, showCombinedPrompt, questionCount, appConcepts,
                   progress, resets, rounds, limit, otherVars>>

----------------------------------------------------------------------------
(* Concept synthesis: the else branch of handleNextStep after its await.   *)

ConceptReply(kind, hasContent, fence, json, hasConcepts, concepts) ==
    [kind |-> kind, hasContent |-> hasContent, fence |-> fence, json |-> json,
     hasConcepts |-> hasConcepts, concepts |-> concepts]

(* A concept is modelled by the number of its key features. *)
K_FAIL == ConceptReply("fail", FALSE, FALSE, "invalid", FALSE, <<>>)
K_NULL == ConceptReply("ok", FALSE, FALSE, "invalid", FALSE, <<>>)
K_TEXT == ConceptReply("ok", TRUE, FALSE, "invalid", FALSE, <<>>)
K_MISSING == ConceptReply("ok", TRUE, FALSE, "object", FALSE, <<>>)
K_THREE == ConceptReply("ok", TRUE, FALSE, "object", TRUE, <<3, 3, 3>>)
K_TWO == ConceptReply("ok", TRUE, FALSE, "object", TRUE, <<3, 2>>)
K_FENCED == ConceptReply("ok", TRUE, TRUE, "object", TRUE, <<3, 3, 3>>)

ConceptReplies == { K_FAIL, K_NULL, K_TEXT, K_MISSING, K_THREE, K_TWO, K_FENCED }

(* appConceptsContent.replace(/```json\s?|```/g, '').trim() *)
StripFences(r) == [r EXCEPT !.fence = FALSE]

(* TRUE when the try block of lines 372-407 completes without throwing. *)
ConceptsParsed(r) ==
    /\ r.kind = "ok"
    /\ r.hasContent
    /\ JsonParses(StripFences(r))

(* The error kind of a reply under the Gateway contract of synthesizeConcepts. *)
ConceptErrorKind(r) ==
    IF r.kind = "fail" THEN "TransportFailure"
    ELSE IF r.hasContent /\ r.json = "object" /\ r.hasConcepts
         THEN "none"
         ELSE "MalformedResponse"

ConceptsReturn(c, r) ==
    /\ c \in BagToSet(calls)
    /\ c.op = "concepts"
    /\ calls' = calls (-) SetToBag({c})
    /\ isGeneratingConcepts' = FALSE
    /\ showCombinedPrompt' = TRUE
    /\ IF ConceptsParsed(r)
       THEN \* setAppConcepts(parsedConcepts.appConcepts); setProgress(100)
            /\ appConcepts' = [defined |-> r.hasConcepts, list |-> r.concepts]
            /\ progress' = PROGRESS_DONE
            /\ fx' = Fx("conceptsReply", ConceptErrorKind(r), FALSE, 0, 0, c.stage0, -1)
            /\ UNCHANGED disturbances
       ELSE \* catch: toast({title: "Error", ...})
            /\ CountFault
            /\ fx' = Fx("conceptsReply", ConceptErrorKind(r), TRUE, 1, 0, c.stage0, -1)
            /\ UNCHANGED <<appConcepts, progress>>
    /\ UNCHANGED <<messages, input, choices, selectedChoices, stage, isLoading,
                   showChoices, currentQuestion, isTypingComplete, promptError,
                   questionCount, resets, rounds, limit, otherVars>>

----------------------------------------------------------------------------
(* Effects of rendering. *)

(* TypingEffect of message i reaches the end of its text: onComplete(),    *)
(* that is handleTypingComplete.  The effect runs only while the chat      *)
(* interface, which mounts the messages, is rendered.                      *)
HandleTypingComplete(i) ==
    /\ ChatInterface
    /\ i \in 1..Len(messages)
    /\ ~messages[i].typed
    /\ messages' = [messages EXCEPT ![i].typed = TRUE]
    /\ isTypingComplete' = TRUE
    /\ showChoices' = TRUE
    /\ fx' = NoFx
    /\ UNCHANGED <<input, choices, selectedChoices, stage, isLoading, currentQuestion,
                   promptError, isGeneratingConcepts, showCombinedPrompt, questionCount,
                   appConcepts, progress, calls, disturbances, resets, rounds, limit, otherVars>>

(* <LoadingBar progress={progress} onLoaderFinished={() => setProgress(0)} /> *)
LoaderFinished ==
    /\ progress = PROGRESS_DONE
    /\ progress' = 0
    /\ fx' = NoFx
    /\ UNCHANGED <<messages, input, choices, selectedChoices, stage, isLoading,
                   showChoices, currentQuestion, isTypingComplete, promptError,
                   isGeneratingConcepts, showCombinedPrompt, questionCount, appConcepts,
                   calls, disturbances, resets, rounds, limit, otherVars>>

(* resetApp, offered in stage completed. *)
ResetApp ==
    /\ stage = "completed"
    /\ resets < limit.resets
    /\ resets' = resets + 1
    /\ rounds' = 0
    /\ stage' = "initial"
    /\ messages' = <<>>
    /\ input' = EmptyString
    /\ choices' = <<>>
    /\ selectedChoices' = <<>>
    /\ questionCount' = 0
    /\ appConcepts' = [defined |-> TRUE, list |-> <<>>]
    /\ progress' = 0
    /\ fx' = Fx("resetApp", "none", FALSE, 0, 0, stage, -1)
    /\ UNCHANGED <<isLoading, showChoices, currentQuestion, isTypingComplete,
                   promptError, isGeneratingConcepts, showCombinedPrompt, calls,
                   disturbances, limit, otherVars>>

----------------------------------------------------------------------------
Next ==
    \/ \E v \in Inputs : SetInput(v)
    \/ SubmitButton
    \/ EnterKey
    \/ \E label \in ToggleLabels : HandleChoiceToggle(label)
    \/ HandleMoreChoices
    \/ \E c \in BagToSet(calls), r \in ValidationReplies : ValidationReturns(c, r)
    \/ \E c \in BagToSet(calls), r \in ApiReplies : FirstQuestionReturns(c, r)
    \/ \E c \in BagToSet(calls), r \in ApiReplies : NextQuestionReturns(c, r)
    \/ \E c \in BagToSet(calls), r \in ApiReplies : MoreChoicesReturns(c, r)
    \/ \E c \in BagToSet(calls), r \in ConceptReplies : ConceptsReturn(c, r)
    \/ \E i \in 1..Len(messages) : HandleTypingComplete(i)
    \/ LoaderFinished
    \/ ResetApp

Spec == Init /\ [][Next]_vars

----------------------------------------------------------------------------
(* The same program with a run bound of two disturbances. *)
InitWide ==
    /\ messages = <<>>
    /\ input = EmptyString
    /\ choices = <<>>
    /\ selectedChoices = <<>>
    /\ stage = "initial"
    /\ isLoading = FALSE
    /\ showChoices = FALSE
    /\ currentQuestion = EmptyString
    /\ isTypingComplete = TRUE
    /\ promptError = "null"
    /\ isGeneratingConcepts = FALSE
    /\ showCombinedPrompt = FALSE
    /\ questionCount = 0
    /\ appConcepts = [defined |-> TRUE, list |-> <<>>]
    /\ progress = 0
    /\ calls = EmptyBag
    /\ fx = NoFx
    /\ disturbances = 0
    /\ resets = 0
    /\ rounds = 0
    /\ limit = Limits(WideDisturbances, MaxResets)
    /\ RouteIdle
    /\ DebounceIdle
    /\ PercentIdle

SpecWide == InitWide /\ [][Next]_vars

(* The interview after three answered questions, the fourth question on   *)
(* screen: the prompt, then question and answer three times, then the     *)
(* fourth question, all typed.                                            *)
LateMessages ==
    LET q == [content |-> Content("question", QUESTION_A, <<>>), isUser |-> FALSE,
              typed |-> TRUE]
        you == Message(Content("you", EmptyString, <<1>>), TRUE)
    IN  <<Message(Content("prompt", <<"a", "p", "p">>, <<>>), TRUE), q, you, q, you, q>>

LateState ==
    /\ messages = LateMessages
    /\ input = EmptyString
    /\ choices = AsChoices(OPTIONS_A)
    /\ selectedChoices = <<>>
    /\ stage = "in_progress"
    /\ isLoading = FALSE
    /\ showChoices = TRUE
    /\ currentQuestion = QUESTION_A
    /\ isTypingComplete = TRUE
    /\ promptError = "null"
    /\ isGeneratingConcepts = FALSE
    /\ showCombinedPrompt = FALSE
    /\ questionCount = 3
    /\ appConcepts = [defined |-> TRUE, list |-> <<>>]
    /\ progress = 60
    /\ calls = EmptyBag

InitLate ==
    /\ LateState
    /\ fx = NoFx
    /\ disturbances = 0
    /\ resets = 0
    /\ rounds = 2
    /\ limit = Limits(LateDisturbances, 0)
    /\ RouteIdle
    /\ DebounceIdle
    /\ PercentIdle

(* The events of the question rounds. *)
NextLate ==
    \/ EnterKey
    \/ \E label \in ToggleLabels : HandleChoiceToggle(label)
    \/ HandleMoreChoices
    \/ \E c \in BagToSet(calls), r \in ApiReplies : NextQuestionReturns(c, r)
    \/ \E c \in BagToSet(calls), r \in ApiReplies : MoreChoicesReturns(c, r)
    \/ \E i \in 1..Len(messages) : HandleTypingComplete(i)

SpecLate == InitLate /\ [][NextLate]_vars

----------------------------------------------------------------------------
(* The main controller before any event. *)
AppIdle ==
    /\ messages = <<>>
    /\ input = EmptyString
    /\ choices = <<>>
    /\ selectedChoices = <<>>
    /\ stage = "initial"
    /\ isLoading = FALSE
    /\ showChoices = FALSE
    /\ currentQuestion = EmptyString
    /\ isTypingComplete = TRUE
    /\ promptError = "null"
    /\ isGeneratingConcepts = FALSE
    /\ showCombinedPrompt = FALSE
    /\ questionCount = 0
    /\ appConcepts = [defined |-> TRUE, list |-> <<>>]
    /\ progress = 0
    /\ calls = EmptyBag
    /\ fx = NoFx
    /\ disturbances = 0
    /\ resets = 0
    /\ rounds = 0
    /\ limit = Limits(0, 0)

(* The proxy route on its own, with and without a configured API key. *)
InitRoute ==
    /\ AppIdle
    /\ keyConfigured \in BOOLEAN
    /\ request = NoRequest
    /\ upstream = NoUpstream
    /\ response = NoResponse
    /\ DebounceIdle
    /\ PercentIdle

NextRoute ==
    \/ \E req \in HttpRequests : POST(req)
    \/ \E r \in UpstreamReplies : UpstreamReturns(r)

SpecRoute == InitRoute /\ [][NextRoute]_vars

(* The debounce variant on its own. *)
InitDebounce ==
    /\ AppIdle
    /\ RouteIdle
    /\ DebounceIdle
    /\ PercentIdle

NextDebounce ==
    \/ \E v \in DebounceInputs : HandleInputChange(v)
    \/ TypingTimeoutFires
    \/ DebounceInputSubmit
    \/ \E c \in BagToSet(debCalls), r \in DebounceReplies : GenerateQuestionReturns(c, r)

SpecDebounce == InitDebounce /\ [][NextDebounce]_vars

----------------------------------------------------------------------------
(* The percent-ready variant src/unnamed/part_001.  Its handlers are not   *)
(* memoised: each event runs the handler of the latest render.             *)

(* The labels the user of this variant toggles. *)
PctToggleLabels == {1, 2}

PCT_ERR_INVALID == Content("errorInvalid", EmptyString, <<>>)
PCT_ERR_CALL == Content("errorCall", EmptyString, <<>>)

(* The reply has a content: the outer try block does not throw. *)
PctHasContent(r) == r.kind = "ok" /\ r.hasContent

(* JSON.parse(content) succeeds and                                        *)
(* aiResponse.question && Array.isArray(aiResponse.options) holds.         *)
PctReplyAccepted(r) ==
    /\ PctHasContent(r)
    /\ JsonParses(r)
    /\ r.question # EmptyString
    /\ r.hasOptions

(* Math.min(100, prev + 20) *)
NextReady(prev) == IF prev + READY_STEP < READY_FULL THEN prev + READY_STEP ELSE READY_FULL

(* What is rendered (lines 222-312). *)
PctBuilding == pctIsLoading /\ pctStage = "completed"

PctChoicesShown ==
    /\ ~PctBuilding
    /\ pctStage # "initial"
    /\ pctShowChoices
    /\ Len(pctChoices) > 0

PctNextButtonEnabled ==
    /\ ~PctBuilding
    /\ pctStage # "initial"
    /\ ~pctIsLoading

(* onChange={(e) => setInput(e.target.value)} *)
PctSetInput(v) ==
    /\ pctStage = "initial"
    /\ v # pctInput
    /\ pctInput' = v
    /\ UNCHANGED <<pctMessages, pctChoices, pctSelectedChoices, readyPercentage, pctStage,
                   pctIsLoading, pctShowChoices, pctCalls, buildTimer, notPercentVars>>

(* handleSendMessage of part_001 up to its await (button or Enter key of   *)
(* the initial screen).                                                    *)
PctHandleSendMessage ==
    /\ pctStage = "initial"
    /\ IF Trim(pctInput) = EmptyString
       THEN UNCHANGED <<pctMessages, pctInput, pctStage, readyPercentage, pctIsLoading,
                        pctShowChoices, pctCalls>>
       ELSE /\ pctMessages' = AddMessage(pctMessages, Content("prompt", pctInput, <<>>), TRUE)
            /\ pctShowChoices' = FALSE
            /\ pctInput' = EmptyString
            /\ pctStage' = "in_progress"
            /\ readyPercentage' = READY_FIRST
            /\ pctIsLoading' = TRUE
            /\ pctCalls' = pctCalls (+) SetToBag({Call("first", pctInput,
                    <<[role |-> "user", content |-> Content("prompt", pctInput, <<>>)]>>,
                    pctStage)})
    /\ UNCHANGED <<pctChoices, pctSelectedChoices, buildTimer, notPercentVars>>

(* handleSendMessage and handleNextStep of part_001 after their await:     *)
(* both handle the reply with the same code (lines 116-141, 183-207).      *)
PctQuestionReturns(c, r) ==
    /\ c \in BagToSet(pctCalls)
    /\ pctCalls' = pctCalls (-) SetToBag({c})
    /\ pctIsLoading' = FALSE
    /\ pctShowChoices' = FALSE
    /\ IF PctReplyAccepted(r)
       THEN /\ pctMessages' = AddMessage(pctMessages, Content("question", r.question, <<>>), FALSE)
            /\ pctChoices' = AsChoices(r.options)
       ELSE /\ pctMessages' = AddMessage(pctMessages,
                                IF PctHasContent(r) THEN PCT_ERR_INVALID ELSE PCT_ERR_CALL,
                                FALSE)
            /\ UNCHANGED pctChoices
    /\ UNCHANGED <<pctInput, pctSelectedChoices, readyPercentage, pctStage, buildTimer,
                   notPercentVars>>

(* TypingEffect of message i completes: handleTypingComplete. *)
PctHandleTypingComplete(i) ==
    /\ pctStage # "initial"
    /\ ~PctBuilding
    /\ i \in 1..Len(pctMessages)
    /\ ~pctMessages[i].typed
    /\ pctMessages' = [pctMessages EXCEPT ![i].typed = TRUE]
    /\ pctShowChoices' = TRUE
    /\ UNCHANGED <<pctInput, pctChoices, pctSelectedChoices, readyPercentage, pctStage,
                   pctIsLoading, pctCalls, buildTimer, notPercentVars>>

(* handleChoiceToggle of part_001 *)
PctHandleChoiceToggle(label) ==
    /\ PctChoicesShown
    /\ \E i \in 1..Len(pctChoices) : pctChoices[i].label = label
    /\ pctSelectedChoices' = ToggleSelected(pctSelectedChoices, label)
    /\ pctChoices' = ToggleChoices(pctChoices, label)
    /\ UNCHANGED <<pctMessages, pctInput, readyPercentage, pctStage, pctIsLoading,
                   pctShowChoices, pctCalls, buildTimer, notPercentVars>>

(* handleNextStep of part_001 up to its await. *)
PctHandleNextStep ==
    /\ PctNextButtonEnabled
    /\ IF Len(pctSelectedChoices) = 0
       THEN UNCHANGED <<pctMessages, pctSelectedChoices, pctChoices, readyPercentage,
                        pctStage, pctIsLoading, pctShowChoices, pctCalls, buildTimer>>
       ELSE /\ pctMessages' = AddMessage(pctMessages,
                                Content("you", EmptyString, pctSelectedChoices), TRUE)
            /\ pctShowChoices' = FALSE
            /\ pctSelectedChoices' = <<>>
            /\ pctChoices' = <<>>
            /\ readyPercentage' = NextReady(readyPercentage)
            /\ IF readyPercentage < READY_LAST_ROUND
               THEN /\ pctIsLoading' = TRUE
                    /\ pctCalls' = pctCalls (+) SetToBag({Call("next", EmptyString,
                            AsRequestMessages(pctMessages) \o
                              <<[role |-> "user",
                                 content |-> Content("join", EmptyString, pctSelectedChoices)]>>,
                            pctStage)})
                    /\ UNCHANGED <<pctStage, buildTimer>>
               ELSE /\ pctStage' = "completed"
                    /\ buildTimer' = TRUE
                    /\ UNCHANGED <<pctIsLoading, pctCalls>>
    /\ UNCHANGED <<pctInput, notPercentVars>>

(* setTimeout(() => { setIsLoading(true); }, 1000) *)
BuildTimerFires ==
    /\ buildTimer
    /\ buildTimer' = FALSE
    /\ pctIsLoading' = TRUE
    /\ UNCHANGED <<pctMessages, pctInput, pctChoices, pctSelectedChoices, readyPercentage,
                   pctStage, pctShowChoices, pctCalls, notPercentVars>>

InitPercent ==
    /\ AppIdle
    /\ RouteIdle
    /\ DebounceIdle
    /\ PercentIdle

NextPercent ==
    \/ \E v \in Inputs : PctSetInput(v)
    \/ PctHandleSendMessage
    \/ \E c \in BagToSet(pctCalls), r \in ApiReplies : PctQuestionReturns(c, r)
    \/ \E i \in 1..Len(pctMessages) : PctHandleTypingComplete(i)
    \/ \E label \in PctToggleLabels : PctHandleChoiceToggle(label)
    \/ PctHandleNextStep
    \/ BuildTimerFires

SpecPercent == InitPercent /\ [][NextPercent]_vars

----------------------------------------------------------------------------
(* Vocabulary of the properties. *)

SelectedLabels == Labels(selectedChoices)

MarkedLabels == { choices[i].label : i \in { j \in 1..Len(choices) : choices[j].isSelected } }

ToggleStep == \E label \in ToggleLabels : HandleChoiceToggle(label)

(* A submit while a question round is on screen, with or without selection. *)
SubmitStep == (SubmitButton \/ EnterKey) /\ stage # "initial"

(* The number of calls of one kind in a bag of calls. *)
OpCount(bag, op) ==
    BagCardinality([c \in { d \in BagToSet(bag) : d.op = op } |-> bag[c]])

(* This step started exactly one request, of kind op. *)
Started(op) ==
    \E c \in BagToSet(calls') : c.op = op /\ calls' = calls (+) SetToBag({c})

Summary == Message(Content("you", EmptyString, selectedChoices), TRUE)

ReplyOps == {"validationReply", "firstReply", "nextReply", "moreReply", "conceptsReply"}

ErrorMessageAppended ==
    /\ Len(messages') = Len(messages) + 1
    /\ SubSeq(messages', 1, Len(messages)) = messages
    /\ ~messages'[Len(messages')].isUser
    /\ messages'[Len(messages')].content \in {ERR_SEND, ERR_NEXT, ERR_MORE}

----------------------------------------------------------------------------
(* C1: a toggle applied to a Choice set whose selected-labels set equals   *)
(* the set of labels marked isSelected leaves the two sets equal, also     *)
(* when the Choice set was extended by requestMore with repeated labels.   *)
C1_ToggleKeepsSetsEqual ==
    [][(ToggleStep /\ SelectedLabels = MarkedLabels) => (SelectedLabels = MarkedLabels)']_vars

(* C2: a submit in stage in_progress with nothing selected changes no      *)
(* state variable and starts no Gateway request.                           *)
C2_EmptySubmitIsNoOp ==
    [][(SubmitStep /\ stage = "in_progress" /\ selectedChoices = <<>>)
         => UNCHANGED <<state, calls>>]_vars

C2_Witness ==
    /\ fx.op = "handleNextStep"
    /\ fx.reqs = 0
    /\ stage = "in_progress"
    /\ selectedChoices = <<>>
    /\ choices # <<>>

(* C3: questionCount never exceeds MAX_QUESTIONS. *)
C3_CountBounded == questionCount <= MAX_QUESTIONS

(* C4: except in a reset, no step decreases questionCount. *)
C4_CountNeverDecreases == [][ResetApp \/ questionCount' >= questionCount]_vars

(* C5 as stated: a submit with a selection appends the summary message;    *)
(* below MAX_QUESTIONS - 1 it requests the next question and stays         *)
(* in_progress; at MAX_QUESTIONS - 1 it completes and requests concepts.   *)
C5_SubmitAppendsSummary ==
    [][(SubmitStep /\ selectedChoices # <<>>) =>
         /\ messages' = Append(messages, Summary)
         /\ questionCount < MAX_QUESTIONS - 1 =>
                Started("next") /\ stage' = "in_progress"
         /\ questionCount = MAX_QUESTIONS - 1 =>
                /\ stage' = "completed"
                /\ Started("concepts")
                /\ OpCount(calls', "next") = OpCount(calls, "next")]_vars

(* C5 amended: the summary message is appended only below                  *)
(* MAX_QUESTIONS - 1; at MAX_QUESTIONS - 1 the message list is left empty. *)
C5_SubmitBranches ==
    [][(SubmitStep /\ selectedChoices # <<>>) =>
         /\ questionCount < MAX_QUESTIONS - 1 =>
                /\ messages' = Append(messages, Summary)
                /\ Started("next")
                /\ stage' = "in_progress"
         /\ questionCount = MAX_QUESTIONS - 1 =>
                /\ messages' = <<>>
                /\ stage' = "completed"
                /\ Started("concepts")
                /\ OpCount(calls', "next") = OpCount(calls, "next")]_vars

C5_Witness ==
    /\ fx.op = "handleNextStep"
    /\ fx.reqs = 1
    /\ stage = "completed"
    /\ questionCount = MAX_QUESTIONS - 1
    /\ OpCount(calls, "concepts") = 1

(* C6: a reply to a next-question or requestMore request whose options     *)
(* array has a length other than 5 is answered with an error message and   *)
(* leaves the Choice list as it was.                                       *)
C6_WrongLengthRejected ==
    [][(fx'.op \in {"nextReply", "moreReply"} /\ fx'.optLen >= 0
          /\ fx'.optLen # OPTIONS_LENGTH)
         => (choices' = choices /\ ErrorMessageAppended
             /\ questionCount' = questionCount)]_vars

C6_Witness ==
    /\ fx.op \in {"nextReply", "moreReply"}
    /\ fx.optLen = Len(OPTIONS_SHORT)
    /\ Len(choices) = OPTIONS_LENGTH

(* C7: after resetApp every field of the conversation state, the view      *)
(* flags, currentQuestion and promptError have their initial values.       *)
C7_ResetRestoresInitial ==
    fx.op = "resetApp" =>
        /\ stage = "initial"
        /\ messages = <<>>
        /\ choices = <<>>
        /\ selectedChoices = <<>>
        /\ questionCount = 0
        /\ progress = 0
        /\ appConcepts = [defined |-> TRUE, list |-> <<>>]
        /\ showCombinedPrompt = FALSE
        /\ isGeneratingConcepts = FALSE
        /\ currentQuestion = EmptyString
        /\ promptError = "null"

(* C8: once a failed Gateway request has been handled, the stage is the    *)
(* stage in which the user action that led to it was triggered.            *)
C8_FailureKeepsStage ==
    (fx.op \in ReplyOps /\ fx.err \in {"TransportFailure", "MalformedResponse"})
        => stage = fx.stage0

(* C9: every error outcome produces exactly one notification. *)
C9_OneNotificationPerError == fx.err # "none" => fx.notes = 1

(* C10: at most one Gateway request is in flight. *)
C10_OneRequestInFlight == InFlight <= 1

(* C11: the request started by a submit with a selection carries every     *)
(* message of the conversation so far, followed by the selections of that  *)
(* submit.                                                                 *)
C11_RequestCarriesHistory ==
    [][(SubmitStep /\ selectedChoices # <<>>) =>
         \E c \in BagToSet(calls') :
            /\ calls' = calls (+) SetToBag({c})
            /\ c.op \in {"next", "concepts"}
            /\ Len(c.payload) > Len(messages)
            /\ SubSeq(c.payload, 1, Len(messages)) = AsRequestMessages(messages)
            /\ \E i \in (Len(messages) + 1)..Len(c.payload) :
                  c.payload[i].content.sel = selectedChoices]_vars

(* C12: the stage goes from initial to in_progress only in the handling of *)
(* a validation reply that reads VALID; a reply that reads anything else   *)
(* leaves the stage and the messages alone, starts no question request and *)
(* sets promptError; a reply that reads VALID appends one user message     *)
(* with the prompt and starts one first-question request.                  *)
C12_OnlyValidStartsInterview ==
    [][/\ (stage = "initial" /\ stage' = "in_progress") =>
            \E c \in BagToSet(calls), r \in ValidationReplies :
                /\ ValidationReturns(c, r)
                /\ r.hasContent /\ ToUpperCase(Trim(r.content)) = STR_VALID
       /\ \A c \in BagToSet(calls), r \in ValidationReplies :
            (ValidationReturns(c, r) /\ r.kind = "ok") =>
                IF r.hasContent /\ ToUpperCase(Trim(r.content)) = STR_VALID
                THEN /\ stage' = "in_progress"
                     /\ messages' = Append(messages,
                                      Message(Content("prompt", c.input, <<>>), TRUE))
                     /\ OpCount(calls', "first") = OpCount(calls, "first") + 1
                     /\ InFlight' = InFlight
                ELSE /\ stage' = stage
                     /\ messages' = messages
                     /\ OpCount(calls', "first") = OpCount(calls, "first")
                     /\ InFlight' = InFlight - 1
                     /\ promptError' # "null"]_vars

C12_Witness ==
    /\ fx.op = "validationReply"
    /\ fx.reqs = 1
    /\ stage = "in_progress"
    /\ messages = <<Message(Content("prompt", <<"a", "p", "p">>, <<>>), TRUE)>>
    /\ OpCount(calls, "first") = 1

(* C13: a submit in stage initial of a prompt that is empty or only white  *)
(* space starts no Gateway request, appends no message, leaves the stage   *)
(* initial and questionCount 0, and sets promptError.                      *)
C13_EmptyPromptRejected ==
    [][((SubmitButton \/ EnterKey) /\ stage = "initial"
          /\ \A i \in 1..Len(input) : IsSpace(input[i]))
         => /\ calls' = calls
            /\ messages' = messages
            /\ stage' = "initial"
            /\ questionCount' = 0
            /\ promptError' # "null"]_vars

C13_Witness ==
    /\ fx.op = "handleSendMessage"
    /\ fx.err = "EmptyInput"
    /\ input = <<" ">>
    /\ promptError # "null"
    /\ stage = "initial"

(* The question on screen has been answered: a summary message of a submit *)
(* follows the last question message.                                      *)
QuestionAnswered ==
    \E i \in 1..Len(messages) :
        /\ messages[i].content.tag = "you"
        /\ \A j \in (i + 1)..Len(messages) : messages[j].content.tag # "question"

(* C14: after a submit with a selection the choices of the answered        *)
(* question are not presented for selection again.                         *)
C14_AnsweredChoicesHidden ==
    (stage = "in_progress" /\ QuestionAnswered) => ~ChoicesVisible

(* A step of requestMore: the More button or the handling of its reply. *)
MoreStep ==
    \/ HandleMoreChoices
    \/ \E c \in BagToSet(calls), r \in ApiReplies : MoreChoicesReturns(c, r)

(* C15: requestMore, when started and when its reply is handled, leaves    *)
(* stage, questionCount and selectedChoices unchanged; on success the      *)
(* previous Choice list is a prefix of the new one and the appended        *)
(* choices are unselected.                                                 *)
C15_MoreKeepsFrame ==
    [][MoreStep =>
         /\ stage' = stage
         /\ questionCount' = questionCount
         /\ selectedChoices' = selectedChoices
         /\ (fx'.op = "moreReply" /\ ~fx'.caught) =>
               /\ Len(choices') > Len(choices)
               /\ SubSeq(choices', 1, Len(choices)) = choices
               /\ \A i \in (Len(choices) + 1)..Len(choices') : ~choices'[i].isSelected]_vars

C15_Witness ==
    /\ fx.op = "moreReply"
    /\ ~fx.caught
    /\ Len(choices) = 2 * OPTIONS_LENGTH
    /\ choices[1].isSelected
    /\ selectedChoices = <<1>>

(* C16: a requestMore reply that is a JSON object with an options array of *)
(* at least one element, with or without a question field, is accepted and *)
(* its options are appended to the Choice list.                            *)
C16_MoreReplyAccepted ==
    [][(fx'.op = "moreReply" /\ fx'.err = "none") =>
         /\ ~fx'.caught
         /\ Len(choices') = Len(choices) + fx'.optLen
         /\ SubSeq(choices', 1, Len(choices)) = choices]_vars

(* C17: a toggle changes nothing but choices and selectedChoices and       *)
(* starts no request, and a second toggle of the same label right after it *)
(* gives back the Choice list and the set of selected labels from before   *)
(* the first.                                                              *)
C17_ToggleIsLocalInvolution ==
    [][\A label \in ToggleLabels :
         HandleChoiceToggle(label) =>
            /\ UNCHANGED <<stage, questionCount, messages, progress, calls>>
            /\ ToggleChoices(choices', label) = choices
            /\ Labels(ToggleSelected(selectedChoices', label)) = Labels(selectedChoices)]_vars

C17_Witness ==
    /\ fx.op = "handleChoiceToggle"
    /\ selectedChoices = <<>>
    /\ choices # <<>>
    /\ \A i \in 1..Len(choices) : ~choices[i].isSelected

(* C18: from a state with stage completed, every step other than a reset   *)
(* leaves the stage completed and leaves questionCount and choices as they *)
(* are, also the handling of a reply that was in flight when the stage     *)
(* became completed.                                                       *)
C18_CompletedIsFrozen ==
    [][(stage = "completed" /\ ~ResetApp) =>
         /\ stage' = "completed"
         /\ questionCount' = questionCount
         /\ choices' = choices]_vars

(* C19: every interview that completes does so with the same number of     *)
(* answer rounds, MAX_QUESTIONS - 1, whichever requests failed on the way. *)
C19_FixedNumberOfRounds ==
    (fx.op = "handleNextStep" /\ fx.reqs = 1 /\ stage = "completed")
        => rounds = MAX_QUESTIONS - 1

(* C20: in stage completed a non-empty concept list holds exactly 3        *)
(* concepts with exactly 3 key features each.                              *)
C20_ThreeConceptsOfThreeFeatures ==
    (stage = "completed" /\ appConcepts.defined /\ appConcepts.list # <<>>) =>
        /\ Len(appConcepts.list) = 3
        /\ \A i \in 1..Len(appConcepts.list) : appConcepts.list[i] = 3

(* C21: a concept-synthesis reply that is JSON without the appConcepts     *)
(* array is answered with one error toast, leaves appConcepts the empty    *)
(* list and does not set progress to 100.                                  *)
C21_MissingConceptsRejected ==
    [][\A c \in BagToSet(calls) :
         ConceptsReturn(c, K_MISSING) =>
            /\ fx'.caught
            /\ fx'.notes = 1
            /\ appConcepts' = [defined |-> TRUE, list |-> <<>>]
            /\ progress' # PROGRESS_DONE]_vars

(* C22: a question reply, and a concept-synthesis reply, wrapped in code   *)
(* fences is accepted like the same body without the fences.               *)
C22_FencedReplyAccepted ==
    [][\A c \in BagToSet(calls) :
         /\ FirstQuestionReturns(c, R_FENCED) =>
               /\ ~fx'.caught
               /\ choices' = AsChoices(R_A.options)
               /\ questionCount' = 1
         /\ NextQuestionReturns(c, R_FENCED) =>
               /\ ~fx'.caught
               /\ choices' = AsChoices(R_A.options)
               /\ questionCount' = questionCount + 1
         /\ ConceptsReturn(c, K_FENCED) =>
               /\ ~fx'.caught
               /\ appConcepts' = [defined |-> TRUE, list |-> K_THREE.concepts]
               /\ progress' = PROGRESS_DONE]_vars

(* The step handles a user action: a submit or the More button. *)
UserAction == SubmitButton \/ EnterKey \/ HandleMoreChoices

(* The number of requests the step adds to the calls in flight. *)
RequestsAdded ==
    LET added(c) == IF CopiesIn(c, calls') > CopiesIn(c, calls)
                    THEN CopiesIn(c, calls') - CopiesIn(c, calls) ELSE 0
        RECURSIVE Sum(_)
        Sum(S) == IF S = {} THEN 0
                  ELSE LET c == CHOOSE x \in S : TRUE IN added(c) + Sum(S \ {c})
    IN  Sum(BagToSet(calls'))

(* C23: the handling of a failed request starts no request; a request is   *)
(* started only by a user action or, for the first question, by the        *)
(* handler of that action when its validation reply reads VALID; and no    *)
(* step starts more than one request.                                      *)
C23_NoAutomaticRetry ==
    [][/\ (fx'.op \in ReplyOps /\ fx'.caught) =>
             (RequestsAdded = 0 /\ InFlight' = InFlight - 1)
       /\ RequestsAdded > 0 =>
             (UserAction \/ (fx'.op = "validationReply" /\ fx'.err = "none"))
       /\ RequestsAdded <= 1]_vars

C23_Witness ==
    /\ fx.op = "nextReply"
    /\ fx.caught
    /\ InFlight = 0
    /\ stage = "in_progress"

(* C24: the handling of a next-question reply that is accepted adds        *)
(* exactly one to questionCount and that of a failed one leaves it alone;  *)
(* the handling of a first-question reply that is accepted sets it to 1;   *)
(* no other step but a reset changes questionCount.                        *)
C24_CountFollowsQuestions ==
    [][/\ (fx'.op = "nextReply" /\ ~fx'.caught) => questionCount' = questionCount + 1
       /\ (fx'.op = "nextReply" /\ fx'.caught) => questionCount' = questionCount
       /\ (fx'.op = "firstReply" /\ ~fx'.caught) => questionCount' = 1
       /\ questionCount' # questionCount =>
             \/ fx'.op \in {"nextReply", "firstReply"} /\ ~fx'.caught
             \/ ResetApp]_vars

C24_Witness ==
    /\ fx.op = "nextReply"
    /\ ~fx.caught
    /\ questionCount = 2
    /\ rounds = 1

(* C28: whenever selectedChoices is empty, no choice of the Choice list is *)
(* marked isSelected.                                                      *)
C28_NoMarkWithoutSelection ==
    selectedChoices = <<>> => \A i \in 1..Len(choices) : ~choices[i].isSelected

(* The requests that handlers announce with setIsLoading(true). *)
LoadingOps == {"validate", "first", "next", "more"}

(* C29: isLoading is true exactly when a validation, first-question,       *)
(* next-question or requestMore request is in flight.                      *)
C29_LoadingIffInFlight ==
    isLoading <=> (\E c \in BagToSet(calls) : c.op \in LoadingOps)

(* C30: with stage in_progress and no request in flight progress is        *)
(* 20 * questionCount; while concepts are generated it is 90; it is 100    *)
(* only with a parsed concept list; it is always within 0..100.            *)
C30_ProgressFollowsCount ==
    /\ (stage = "in_progress" /\ InFlight = 0) => progress = PROGRESS_STEP * questionCount
    /\ isGeneratingConcepts => progress = PROGRESS_GENERATING
    /\ progress = PROGRESS_DONE => (appConcepts.defined /\ appConcepts.list # <<>>)
    /\ progress \in 0..PROGRESS_DONE

(* C25: when the upstream call failed with status S the route answers with *)
(* a body {error: string} and HTTP status S; when it succeeded the route   *)
(* answers with the first completion choice.                               *)
C25_RouteMirrorsUpstreamStatus ==
    /\ upstream.kind = "rejected" =>
          /\ response.status = upstream.reply.status
          /\ DOMAIN response.body = {"error"}
    /\ upstream.kind = "resolved" =>
          response.body = upstream.reply.choices[1]

(* C26: in the debounce variant at most one Gateway request is in flight. *)
C26_DebounceOneRequestInFlight == BagCardinality(debCalls) <= 1

(* In the percent-ready variant: a control that changes the state or       *)
(* starts a request is enabled, or a typing effect is still running.       *)
PctUserCanAct ==
    \/ PctChoicesShown
    \/ PctNextButtonEnabled /\ Len(pctSelectedChoices) > 0

PctTypingPending == \E i \in 1..Len(pctMessages) : ~pctMessages[i].typed

(* C27: the percent-ready variant is never in stage in_progress with no    *)
(* request in flight, no typing effect running and no user action that     *)
(* changes the state; in particular not after a failed request.            *)
C27_PercentNeverStuck ==
    (pctStage = "in_progress" /\ pctCalls = EmptyBag /\ ~PctTypingPending) => PctUserCanAct

----------------------------------------------------------------------------
(* A TypingEffect of the chat interface is still running. *)
TypingPending == ChatInterface /\ \E i \in 1..Len(messages) : ~messages[i].typed

(* A toggle, a submit of a selection or a request for more options is      *)
(* open to the user.                                                       *)
UserCanAct ==
    \/ ChoicesVisible /\ (choices # <<>> \/ ~isLoading)
    \/ InputVisible /\ ~NothingSelected(selectedChoices)

(* C31: from every state with stage in_progress and no request in flight   *)
(* stage completed can be reached by user actions and successful replies;  *)
(* such a state therefore has a typing effect running or a user action     *)
(* open, also after a failed first-question or next-question request.      *)
C31_CompletionStaysPossible ==
    (stage = "in_progress" /\ InFlight = 0) => (TypingPending \/ UserCanAct)

(* C32: in an interview that follows a reset, once the first question has  *)
(* been received the chat interface with the input control is rendered,    *)
(* and not the concepts view, and the question's choices are the Choice    *)
(* list.                                                                   *)
C32_SecondInterviewShowsChat ==
    (resets >= 1 /\ fx.op = "firstReply" /\ ~fx.caught)
        => (ChatInterface /\ InputVisible /\ ~showCombinedPrompt /\ choices # <<>>)

====
